---- MODULE Spec2Model ----
(***************************************************************************)
(* Model of src/generate_password.py: generate_password() and the command  *)
(* line driver main(); and of src/ssm_manager.py: the `list` and `delete`   *)
(* commands of the parameter-store tool with their interactive flows.      *)
(*                                                                         *)
(* A password is a sequence of one-character strings.  The alphabets are   *)
(* the ones of the source, character by character.  A random draw          *)
(* (secrets.choice) is a nondeterministic choice over the alphabet it      *)
(* draws from, restricted to the drawable characters: per class the first  *)
(* character that is in similar_chars and the first character that is     *)
(* not.  The program only ever tests a character for membership in         *)
(* similar_chars, so characters of one class on the same side of that test *)
(* are interchangeable.                                                    *)
(***************************************************************************)
EXTENDS Integers, Sequences, FiniteSets, TLC

\* ---------------------------------------------------------------- bounds
MaxLength == 4
MaxCount == 2

\* ------------------------------------------------------------- alphabets
uppercase ==
  <<"A","B","C","D","E","F","G","H","I","J","K","L","M",
    "N","O","P","Q","R","S","T","U","V","W","X","Y","Z">>

lowercase ==
  <<"a","b","c","d","e","f","g","h","i","j","k","l","m",
    "n","o","p","q","r","s","t","u","v","w","x","y","z">>

digits ==
  <<"0","1","2","3","4","5","6","7","8","9">>

special ==
  <<"!","@","#","$","%","^","&","*","(",")","_","+","-",
    "=","[","]","{","}","|",";",":",",",".","<",">","?">>

similar_chars ==
  <<"i","l","1","L","o","0","O">>

\* ---------------------------------------------------------------- helpers
Range(s) == {s[k] : k \in DOMAIN s}

\* Python's `c in s` for a one-character c.
In(c, s) == c \in Range(s)

\* The characters a draw may return in the model: of each class alphabet the
\* first similar character and the first other character.
DrawableOf(alpha) ==
  {alpha[k] : k \in {n \in DOMAIN alpha :
      \A m \in 1..(n-1) : In(alpha[m], similar_chars) # In(alpha[n], similar_chars)}}

Drawable ==
  DrawableOf(uppercase) \cup DrawableOf(lowercase)
    \cup DrawableOf(digits) \cup DrawableOf(special)

\* secrets.choice(seq): any element of seq.
choice(seq) == Range(seq) \cap Drawable

\* ------------------------------------------------------------------ state
VARIABLES
  args,           \* the parsed command line
  pc,             \* position in main / generate_password
  i,              \* number of loop iterations of main started
  password,       \* generate_password's local list `password`
  draws,          \* secrets.choice calls made by the current call
  error,          \* message kind of the ValueError raised, or "none"
  main_password,  \* main's variable `password`: the string returned
  stdout,         \* number of password lines written to standard output
  stderr,         \* kinds of the messages written to the error stream
  copy_failed,    \* an except clause of the clipboard step was entered
  exit_code,      \* the process's exit code, once pc = "exited"
  store,          \* the remote parameter store: name -> [Type, Value]
  requests,       \* the delete and put requests sent to the store, in order
  tool            \* the parameter-store tool: command line, position, locals

pw_vars ==
  <<args, pc, i, password, draws, error, main_password, stdout, stderr,
    copy_failed, exit_code>>

ssm_vars == <<store, requests, tool>>

vars == <<pw_vars, ssm_vars>>

\* The keyword arguments main passes to generate_password.
use_uppercase == ~args.no_uppercase
use_lowercase == ~args.no_lowercase
use_digits == ~args.no_digits
use_special == ~args.no_special
exclude_similar == args.exclude_similar
length == args.length

\* chars as the four `if use_X: chars += X` build it.
PoolAll(uu, ul, ud, us) == uppercase \o lowercase \o digits \o special

PoolOf(uu, ul, ud, us) ==
  (IF uu THEN uppercase ELSE <<>>) \o (IF ul THEN lowercase ELSE <<>>)
    \o (IF ud THEN digits ELSE <<>>) \o (IF us THEN special ELSE <<>>)

\* The pool left unfiltered.
NoFilter(s) == s

\* ''.join(c for c in chars if c not in similar_chars)
FilterSimilar(s) == SelectSeq(s, LAMBDA c : ~In(c, similar_chars))

\* chars when the validations read it.
chars ==
  IF exclude_similar
    THEN FilterSimilar(PoolOf(use_uppercase, use_lowercase, use_digits, use_special))
    ELSE PoolOf(use_uppercase, use_lowercase, use_digits, use_special)

\* Python's int(True) = 1, int(False) = 0, as sum() sees the flags.
B2N(b) == IF b THEN 1 ELSE 0

min_length == B2N(use_uppercase) + B2N(use_lowercase) + B2N(use_digits) + B2N(use_special)

\* `if not chars`
NoCharsetUnchecked == FALSE

NoCharset == chars = <<>>

\* `if length < min_length`
TooShortNonPositive == length < 1

TooShort == length < min_length

\* `while len(password) < length`
LoopCondInclusive == Len(password) <= length

LoopCond == Len(password) < length

\* sys.exit(1) of main's handlers.
ErrorExitCodeSwallowed == 1 - 1

ErrorExitCode == 1

\* random.shuffle(x): for i from len(x)-1 down to 1, swap x[i] with x[j] for a
\* random j in 0..i (indices are 1-based here).
Swap(x, a, b) == [x EXCEPT ![a] = x[b], ![b] = x[a]]

RECURSIVE ShuffleFrom(_, _)
ShuffleFrom(S, n) ==
  IF n <= 1 THEN S
  ELSE ShuffleFrom({Swap(x, n, j) : x \in S, j \in 1..n}, n - 1)

NoShuffle(x) == {x}

\* Every order secrets.SystemRandom().shuffle can leave the list in.
Shuffles(x) == ShuffleFrom({x}, Len(x))

\* The outcomes of generate_password for the current arguments: the
\* guaranteed picks in class order, the fill draws the loop keeps, any order
\* the shuffle can leave.
PickSet(use, alpha) == IF use THEN {<<c>> : c \in choice(alpha)} ELSE {<<>>}

Guaranteed ==
  {u \o l \o d \o p :
     u \in PickSet(use_uppercase, uppercase), l \in PickSet(use_lowercase, lowercase),
     d \in PickSet(use_digits, digits), p \in PickSet(use_special, special)}

Kept == {c \in choice(chars) : ~(exclude_similar /\ In(c, similar_chars))}

Fills(n) == [1..n -> Kept]

PossibleResults ==
  UNION {Shuffles(g \o f) : g \in Guaranteed, f \in Fills(length - min_length)}

\* The password generator runs without the parameter-store tool.
NoStore == [n \in {} |-> "None"]

NoTool == [command |-> "None"]

\* ------------------------------------------------------------------- Init
Args ==
  [length : (0 - 1)..MaxLength,
   no_uppercase : BOOLEAN, no_lowercase : BOOLEAN,
   no_digits : BOOLEAN, no_special : BOOLEAN,
   exclude_similar : BOOLEAN,
   count : (0 - 1)..MaxCount,
   copy : BOOLEAN]

Init ==
  /\ args \in Args
  /\ pc = "main_loop"
  /\ i = 0
  /\ password = <<>>
  /\ draws = 0
  /\ error = "none"
  /\ main_password = <<>>
  /\ stdout = 0
  /\ stderr = <<>>
  /\ copy_failed = FALSE
  /\ exit_code = 0
  /\ store = NoStore
  /\ requests = <<>>
  /\ tool = NoTool

\* ---------------------------------------------------------------- actions
\* for i in range(args.count): password = generate_password(...)
Call ==
  /\ pc = "main_loop"
  /\ i < args.count
  /\ i' = i + 1
  /\ pc' = "validate"
  /\ password' = <<>>
  /\ draws' = 0
  /\ main_password' = <<>>
  /\ UNCHANGED ssm_vars
  /\ UNCHANGED <<args, error, stdout, stderr, copy_failed, exit_code>>

\* The loop is exhausted: main returns, the process exits with code 0.
ExitOk ==
  /\ pc = "main_loop"
  /\ ~(i < args.count)
  /\ pc' = "exited"
  /\ exit_code' = 0
  /\ UNCHANGED ssm_vars
  /\ UNCHANGED <<args, i, password, draws, error, main_password, stdout, stderr,
                 copy_failed>>

\* Pool construction and the two validations of generate_password; a
\* ValueError propagates to main's handler: message on stderr, sys.exit(1).
Validate ==
  /\ pc = "validate"
  /\ IF NoCharset
       THEN /\ error' = "no_charset"
            /\ stderr' = Append(stderr, "Error")
            /\ exit_code' = ErrorExitCode
            /\ pc' = "exited"
       ELSE IF TooShort
         THEN /\ error' = "too_short"
              /\ stderr' = Append(stderr, "Error")
              /\ exit_code' = ErrorExitCode
              /\ pc' = "exited"
         ELSE /\ pc' = "pick_uppercase"
              /\ UNCHANGED <<error, stderr, exit_code>>
  /\ UNCHANGED ssm_vars
  /\ UNCHANGED <<args, i, password, draws, main_password, stdout, copy_failed>>

\* A guaranteed pick drawn from the whole pool instead of the class.
PickFromPool(here, use, alpha, next) ==
  /\ pc = here
  /\ pc' = next
  /\ IF use
       THEN \E c \in choice(chars) :
              /\ password' = Append(password, c)
              /\ draws' = draws + 1
       ELSE UNCHANGED <<password, draws>>
  /\ UNCHANGED ssm_vars
  /\ UNCHANGED <<args, i, error, main_password, stdout, stderr, copy_failed,
                 exit_code>>

\* if use_X: password.append(secrets.choice(X))
Pick(here, use, alpha, next) ==
  /\ pc = here
  /\ pc' = next
  /\ IF use
       THEN \E c \in choice(alpha) :
              /\ password' = Append(password, c)
              /\ draws' = draws + 1
       ELSE UNCHANGED <<password, draws>>
  /\ UNCHANGED ssm_vars
  /\ UNCHANGED <<args, i, error, main_password, stdout, stderr, copy_failed,
                 exit_code>>

PickUppercase == Pick("pick_uppercase", use_uppercase, uppercase, "pick_lowercase")
PickLowercase == Pick("pick_lowercase", use_lowercase, lowercase, "pick_digits")
PickDigits == Pick("pick_digits", use_digits, digits, "pick_special")
PickSpecial == Pick("pick_special", use_special, special, "fill")

\* One iteration of `while len(password) < length`.
Fill ==
  /\ pc = "fill"
  /\ LoopCond
  /\ \E char \in choice(chars) :
       /\ draws' = draws + 1
       /\ password' = IF exclude_similar /\ In(char, similar_chars)
                        THEN password
                        ELSE Append(password, char)
  /\ UNCHANGED ssm_vars
  /\ UNCHANGED <<args, pc, i, error, main_password, stdout, stderr, copy_failed,
                 exit_code>>

\* The loop ends; the list is shuffled, joined and returned; main prints it.
ShuffleReturn ==
  /\ pc = "fill"
  /\ ~LoopCond
  /\ \E p \in Shuffles(password) : main_password' = p
  /\ password' = <<>>
  /\ stdout' = stdout + 1
  /\ pc' = "copy"
  /\ UNCHANGED ssm_vars
  /\ UNCHANGED <<args, i, draws, error, stderr, copy_failed, exit_code>>

\* The clipboard step without its inner try: a failure reaches main's outer
\* `except Exception`.
CopyUnguarded ==
  /\ pc = "copy"
  /\ IF args.copy
       THEN \E outcome \in {"ok", "ImportError", "Exception"} :
              IF outcome = "ok"
                THEN /\ stderr' = IF args.count = 1 THEN Append(stderr, "Copied")
                                                    ELSE stderr
                     /\ pc' = "main_loop"
                     /\ UNCHANGED <<copy_failed, exit_code>>
                ELSE /\ stderr' = Append(stderr, "UnexpectedError")
                     /\ copy_failed' = TRUE
                     /\ exit_code' = ErrorExitCode
                     /\ pc' = "exited"
       ELSE /\ pc' = "main_loop"
            /\ UNCHANGED <<stderr, copy_failed, exit_code>>
  /\ main_password' = <<>>
  /\ UNCHANGED ssm_vars
  /\ UNCHANGED <<args, i, password, draws, error, stdout>>

\* if args.copy: import pyperclip; pyperclip.copy(password), with the import
\* or the call succeeding or raising.  The loop body ends here: main's
\* password is not read again and is dropped.
Copy ==
  /\ pc = "copy"
  /\ IF args.copy
       THEN \E outcome \in {"ok", "ImportError", "Exception"} :
              IF outcome = "ok"
                THEN /\ stderr' = IF args.count = 1 THEN Append(stderr, "Copied")
                                                    ELSE stderr
                     /\ UNCHANGED copy_failed
                ELSE /\ stderr' = Append(stderr, IF outcome = "ImportError"
                                                   THEN "WarningNotInstalled"
                                                   ELSE "WarningCouldNotCopy")
                     /\ copy_failed' = TRUE
       ELSE UNCHANGED <<stderr, copy_failed>>
  /\ main_password' = <<>>
  /\ pc' = "main_loop"
  /\ UNCHANGED ssm_vars
  /\ UNCHANGED <<args, i, password, draws, error, stdout, exit_code>>

Next ==
  \/ Call
  \/ ExitOk
  \/ Validate
  \/ PickUppercase
  \/ PickLowercase
  \/ PickDigits
  \/ PickSpecial
  \/ Fill
  \/ ShuffleReturn
  \/ Copy

Spec == Init /\ [][Next]_vars

\* ------------------------------------------- the parameter-store tool
\* Python's None, and what questionary's confirm().ask() returns.
None == "None"

ConfirmAnswers == {"True", "False", None}

\* Python truthiness of an answer: None, False and '' are falsy.
Truthy(x) == x \notin {None, "False", ""}

\* The parameter names, types and values of the model.
NameSeq == <<"/app/a", "/app/b">>

Names == Range(NameSeq)

Types == {"String", "StringList", "SecureString"}

Values == {"v1", "v2"}

Stores ==
  UNION {[S -> [Type : Types, Value : Values]] : S \in SUBSET Names}

\* list_parameters(): Name and Type of every parameter of the store.
Listing ==
  LET present == SelectSeq(NameSeq, LAMBDA n : n \in DOMAIN store)
  IN [k \in DOMAIN present |-> [Name |-> present[k], Type |-> store[present[k]].Type]]

\* next((p for p in parameters if p['Name'] == name), None)
ParamInfo(name) ==
  IF \E k \in DOMAIN tool.parameters : tool.parameters[k].Name = name
    THEN tool.parameters[CHOOSE k \in DOMAIN tool.parameters :
                            /\ tool.parameters[k].Name = name
                            /\ \A j \in 1..(k-1) : tool.parameters[j].Name # name]
    ELSE [Name |-> None, Type |-> None]

\* The answer to a delete confirmation lets the deletion go ahead.
NotDeclined(answer) == answer # "False"

Confirmed(answer) == Truthy(answer)

\* update_parameter's parameter_type as update_existing_parameter leaves it:
\* the default.
ListedType(name) == ParamInfo(name).Type

UpdateType(name) == "String"

\* The tool leaves the frame of the current command.
Finish(code) == [tool EXCEPT !.pc = "done", !.exit_code = code]

InitSSM ==
  /\ args = [length |-> 0, no_uppercase |-> FALSE, no_lowercase |-> FALSE,
             no_digits |-> FALSE, no_special |-> FALSE, exclude_similar |-> FALSE,
             count |-> 0, copy |-> FALSE]
  /\ pc = "unused"
  /\ i = 0
  /\ password = <<>>
  /\ draws = 0
  /\ error = "none"
  /\ main_password = <<>>
  /\ stdout = 0
  /\ stderr = <<>>
  /\ copy_failed = FALSE
  /\ exit_code = 0
  /\ store \in Stores
  /\ requests = <<>>
  /\ \E c \in {"list", "delete"}, n \in Names, f \in BOOLEAN :
       /\ c = "list" => (n = NameSeq[1] /\ ~f)
       /\ tool = [command |-> c,
                  name |-> IF c = "delete" THEN n ELSE None,
                  force |-> f,
                  pc |-> "start",
                  parameters |-> <<>>,
                  selected |-> None,
                  action |-> None,
                  current_value |-> None,
                  new_value |-> None,
                  confirm |-> "unasked",
                  exit_code |-> 0]

\* SSMManager.delete_parameter(name): the request, then success, or
\* ParameterNotFound or another exception (both return False).
DeleteParameter(name, ok) ==
  /\ requests' = Append(requests, [op |-> "delete", Name |-> name])
  /\ IF ok
       THEN /\ name \in DOMAIN store
            /\ store' = [n \in DOMAIN store \ {name} |-> store[n]]
       ELSE store' = store

\* SSMManager.update_parameter(name, value, parameter_type): put_parameter
\* with Overwrite, then success or an exception.
UpdateParameter(name, value, parameter_type, ok) ==
  /\ requests' = Append(requests, [op |-> "put", Name |-> name, Value |-> value,
                                   Type |-> parameter_type, Overwrite |-> TRUE])
  /\ IF ok
       THEN store' = [n \in DOMAIN store \cup {name} |->
                        IF n = name THEN [Type |-> parameter_type, Value |-> value]
                        ELSE store[n]]
       ELSE store' = store

\* SSMManager.create_parameter(name, value, parameter_type): put_parameter
\* without Overwrite; ParameterAlreadyExists when the name is taken.
CreateParameter(name, value, parameter_type, ok) ==
  /\ requests' = Append(requests, [op |-> "put", Name |-> name, Value |-> value,
                                   Type |-> parameter_type, Overwrite |-> FALSE])
  /\ IF ok
       THEN /\ name \notin DOMAIN store
            /\ store' = [n \in DOMAIN store \cup {name} |->
                           IF n = name THEN [Type |-> parameter_type, Value |-> value]
                           ELSE store[n]]
       ELSE store' = store

\* `list`: fetch the parameters; an exception exits with code 1, an empty
\* listing returns.
ListFetch ==
  /\ tool.pc = "start"
  /\ tool.command = "list"
  /\ \E fetched \in BOOLEAN :
       tool' = IF ~fetched THEN Finish(1)
               ELSE IF Listing = <<>> THEN Finish(0)
               ELSE [tool EXCEPT !.pc = "menu", !.parameters = Listing]
  /\ UNCHANGED <<store, requests>>
  /\ UNCHANGED pw_vars

\* `list`: the menu of parameters and actions.
MenuSelect ==
  /\ tool.pc = "menu"
  /\ \E sel \in {tool.parameters[k].Name : k \in DOMAIN tool.parameters}
                  \cup {"__CREATE_NEW__", "__DELETE__", "__QUIT__", None} :
       tool' = IF ~Truthy(sel) \/ sel = "__QUIT__"
                 THEN [Finish(0) EXCEPT !.selected = sel]
               ELSE IF sel = "__CREATE_NEW__"
                 THEN [tool EXCEPT !.selected = sel, !.pc = "create"]
               ELSE IF sel = "__DELETE__"
                 THEN [tool EXCEPT !.selected = sel, !.pc = "delete_select"]
               ELSE IF ParamInfo(sel).Name = None
                 THEN [Finish(0) EXCEPT !.selected = sel]
               ELSE [tool EXCEPT !.selected = sel, !.name = sel, !.pc = "action"]
  /\ UNCHANGED <<store, requests>>
  /\ UNCHANGED pw_vars

\* parameter_action: View or Update.
ActionSelect ==
  /\ tool.pc = "action"
  /\ \E act \in {"view", "update", None} :
       tool' = IF ~Truthy(act) THEN [Finish(0) EXCEPT !.action = act]
               ELSE [tool EXCEPT !.action = act, !.pc = act]
  /\ UNCHANGED <<store, requests>>
  /\ UNCHANGED pw_vars

\* view_parameter: show the parameter, then Update or Go back.
ViewParameter ==
  /\ tool.pc = "view"
  /\ \E next_action \in {"update", "back", None} :
       tool' = IF next_action = "update"
                 THEN [tool EXCEPT !.action = next_action, !.pc = "update"]
                 ELSE [Finish(0) EXCEPT !.action = next_action]
  /\ UNCHANGED <<store, requests>>
  /\ UNCHANGED pw_vars

\* update_existing_parameter, up to the confirmation: read the current
\* value (None when the read fails), ask for the new value.
UpdatePrompt ==
  /\ tool.pc = "update"
  /\ \E got \in BOOLEAN, answer \in Values \cup {"", None} :
       LET current == IF got /\ tool.name \in DOMAIN store
                        THEN store[tool.name].Value ELSE None
       IN tool' = IF current = None
                    THEN [Finish(0) EXCEPT !.current_value = current]
                  ELSE IF ~Truthy(answer)
                    THEN [Finish(0) EXCEPT !.current_value = current,
                                           !.new_value = answer]
                  ELSE [tool EXCEPT !.current_value = current, !.new_value = answer,
                                    !.pc = "update_confirm"]
  /\ UNCHANGED <<store, requests>>
  /\ UNCHANGED pw_vars

\* update_existing_parameter: "Update this parameter?" and the update.
UpdateConfirm ==
  /\ tool.pc = "update_confirm"
  /\ \E answer \in ConfirmAnswers, ok \in BOOLEAN :
       IF Truthy(answer)
         THEN UpdateParameter(tool.name, tool.new_value, UpdateType(tool.name), ok)
         ELSE UNCHANGED <<store, requests>>
  /\ tool' = Finish(0)
  /\ UNCHANGED pw_vars

\* delete_parameter_interactive: choose the parameter to delete.
DeleteSelect ==
  /\ tool.pc = "delete_select"
  /\ \E sel \in {tool.parameters[k].Name : k \in DOMAIN tool.parameters} \cup {None} :
       tool' = IF tool.parameters = <<>> THEN Finish(0)
               ELSE IF ~Truthy(sel) THEN [Finish(0) EXCEPT !.selected = sel]
               ELSE [tool EXCEPT !.selected = sel, !.name = sel, !.pc = "delete_confirm"]
  /\ UNCHANGED <<store, requests>>
  /\ UNCHANGED pw_vars

\* delete_parameter_interactive: the confirmation and the deletion.
DeleteConfirm ==
  /\ tool.pc = "delete_confirm"
  /\ \E answer \in ConfirmAnswers, ok \in BOOLEAN :
       /\ IF Confirmed(answer)
            THEN DeleteParameter(tool.name, ok)
            ELSE UNCHANGED <<store, requests>>
       /\ tool' = [Finish(0) EXCEPT !.confirm = answer]
  /\ UNCHANGED pw_vars

\* create_parameter_flow with create_new_parameter / create_from_template:
\* any prompt may be cancelled; otherwise the parameter is created.
CreateFlow ==
  /\ tool.pc = "create"
  /\ \E cancelled \in BOOLEAN, name \in Names, value \in Values,
        param_type \in Types, answer \in ConfirmAnswers, ok \in BOOLEAN :
       IF ~cancelled /\ Truthy(answer)
         THEN CreateParameter(name, value, param_type, ok)
         ELSE UNCHANGED <<store, requests>>
  /\ tool' = Finish(0)
  /\ UNCHANGED pw_vars

\* `delete NAME` without --force: the confirmation.
DeleteCommandConfirm ==
  /\ tool.pc = "start"
  /\ tool.command = "delete"
  /\ ~tool.force
  /\ \E answer \in ConfirmAnswers :
       tool' = IF Confirmed(answer)
                 THEN [tool EXCEPT !.confirm = answer, !.pc = "delete_call"]
                 ELSE [Finish(0) EXCEPT !.confirm = answer]
  /\ UNCHANGED <<store, requests>>
  /\ UNCHANGED pw_vars

\* `delete NAME`: the deletion; a failure exits with code 1.
DeleteCommandCall ==
  /\ tool.command = "delete"
  /\ \/ tool.pc = "start" /\ tool.force
     \/ tool.pc = "delete_call"
  /\ \E ok \in BOOLEAN :
       /\ DeleteParameter(tool.name, ok)
       /\ tool' = Finish(IF ok THEN 0 ELSE 1)
  /\ UNCHANGED pw_vars

NextSSM ==
  \/ ListFetch
  \/ MenuSelect
  \/ ActionSelect
  \/ ViewParameter
  \/ UpdatePrompt
  \/ UpdateConfirm
  \/ DeleteSelect
  \/ DeleteConfirm
  \/ CreateFlow
  \/ DeleteCommandConfirm
  \/ DeleteCommandCall

SpecSSM == InitSSM /\ [][NextSSM]_vars

\* ----------------------------------------------------------------- claims
\* generate_password has returned a string to main (a returned password is
\* never empty: a valid configuration has length >= 1).
Returned == main_password # <<>>

\* The characters of the alphabets, as sets.
Upper == Range(uppercase)
Lower == Range(lowercase)
Digit == Range(digits)
Special == Range(special)
Similar == Range(similar_chars)

Covers(s, alphabet) == \E k \in DOMAIN s : s[k] \in alphabet

\* C1: when exclude_similar is true, the returned password contains no
\* character of similar_chars, the guaranteed one-per-class picks included.
ExclusionInvariant ==
  (Returned /\ exclude_similar) => ~Covers(main_password, Similar)

\* C2: for every valid configuration the returned string has exactly `length`
\* characters.
LengthInvariant ==
  Returned => Len(main_password) = length

LengthWitness ==
  /\ Returned
  /\ min_length >= 2
  /\ Len(main_password) > min_length

\* C3: for every valid configuration the returned (shuffled) password has at
\* least one character of the alphabet of every enabled class.
ClassCoverageInvariant ==
  Returned =>
    /\ use_uppercase => Covers(main_password, Upper)
    /\ use_lowercase => Covers(main_password, Lower)
    /\ use_digits => Covers(main_password, Digit)
    /\ use_special => Covers(main_password, Special)

ClassCoverageWitness ==
  /\ Returned
  /\ min_length = 4
  /\ main_password[1] \in Special
  /\ main_password[4] \in Upper

\* C4: every character of the returned password is in the alphabet of an
\* enabled class; no character of a disabled class appears.
EnabledClassesOnly ==
  Returned =>
    \A k \in DOMAIN main_password :
      \/ use_uppercase /\ main_password[k] \in Upper
      \/ use_lowercase /\ main_password[k] \in Lower
      \/ use_digits /\ main_password[k] \in Digit
      \/ use_special /\ main_password[k] \in Special

EnabledClassesOnlyWitness ==
  /\ Returned
  /\ min_length = 2
  /\ use_lowercase /\ use_digits
  /\ Len(main_password) = 4

\* C5: when length is smaller than the number of enabled classes (at least
\* one enabled), the call fails with the length error, returns no password
\* and has drawn no random character.
FeasibilityRejection ==
  (i > 0 /\ pc # "validate" /\ min_length >= 1 /\ length < min_length) =>
    /\ pc = "exited"
    /\ error = "too_short"
    /\ draws = 0
    /\ password = <<>>
    /\ ~Returned
    /\ stdout = 0

FeasibilityRejectionWitness ==
  /\ pc = "exited"
  /\ error = "too_short"
  /\ length = 2
  /\ min_length = 4
  /\ draws = 0

\* C6: with no character class enabled the call fails with the character-set
\* error for every length and every exclude_similar, and returns no password.
EmptyClassRejection ==
  (i > 0 /\ pc # "validate" /\ min_length = 0) =>
    /\ pc = "exited"
    /\ error = "no_charset"
    /\ draws = 0
    /\ ~Returned
    /\ stdout = 0

EmptyClassRejectionWitness ==
  /\ pc = "exited"
  /\ error = "no_charset"
  /\ min_length = 0
  /\ length > 0
  /\ exclude_similar

\* The configuration is one generate_password rejects.
Infeasible == min_length = 0 \/ length < min_length

\* C7 as stated: every run with an infeasible configuration ends with exit
\* code 1 and an error message on the error stream, for every --count.
CliInfeasibleExitsOneAnyCount ==
  (pc = "exited" /\ Infeasible) => (exit_code = 1 /\ In("Error", stderr))

\* C7: every run with an infeasible configuration and --count >= 1 ends with
\* exit code 1 and an error message on the error stream.
CliInfeasibleExitsOne ==
  (pc = "exited" /\ Infeasible /\ args.count >= 1) =>
    (exit_code = 1 /\ In("Error", stderr))

CliInfeasibleExitsOneWitness ==
  /\ pc = "exited"
  /\ Infeasible
  /\ args.count = 2
  /\ exit_code = 1
  /\ stderr = <<"Error">>

\* A complete and compliant password for the current arguments.
Compliant(s) ==
  /\ Len(s) = length
  /\ use_uppercase => Covers(s, Upper)
  /\ use_lowercase => Covers(s, Lower)
  /\ use_digits => Covers(s, Digit)
  /\ use_special => Covers(s, Special)
  /\ \A k \in DOMAIN s :
       \/ use_uppercase /\ s[k] \in Upper
       \/ use_lowercase /\ s[k] \in Lower
       \/ use_digits /\ s[k] \in Digit
       \/ use_special /\ s[k] \in Special
  /\ exclude_similar => ~Covers(s, Similar)

\* C8: for --count >= 1 standard output is all-or-nothing: exit code 0 with
\* exactly count lines, each a complete and compliant password, or exit code
\* 1 with no line at all.
CliAllOrNothing ==
  args.count >= 1 =>
    /\ (pc = "exited" /\ exit_code = 0) => stdout = args.count
    /\ (pc = "exited" /\ exit_code = 1) => stdout = 0
    /\ Returned => Compliant(main_password)

Warnings == {"WarningNotInstalled", "WarningCouldNotCopy"}

\* C9: when --copy is requested and the clipboard import or call fails, every
\* requested password is still printed, only warnings reach the error stream
\* and the exit code is 0.
ClipboardFailureHarmless ==
  /\ copy_failed => (exit_code = 0 /\ Range(stderr) \subseteq Warnings)
  /\ (pc = "exited" /\ copy_failed) => stdout = args.count

ClipboardFailureHarmlessWitness ==
  /\ pc = "exited"
  /\ copy_failed
  /\ args.count = 2
  /\ stdout = 2
  /\ stderr = <<"WarningNotInstalled", "WarningCouldNotCopy">>

\* The strings of length `length` over the enabled alphabets that contain a
\* character of every enabled class.
CompliantStrings ==
  {s \in [1..length -> {c \in Drawable :
                          \/ use_uppercase /\ c \in Upper
                          \/ use_lowercase /\ c \in Lower
                          \/ use_digits /\ c \in Digit
                          \/ use_special /\ c \in Special}] :
     /\ use_uppercase => Covers(s, Upper)
     /\ use_lowercase => Covers(s, Lower)
     /\ use_digits => Covers(s, Digit)
     /\ use_special => Covers(s, Special)}

\* C10: with exclude_similar false, every string of length `length` over the
\* enabled alphabets with a character of every enabled class is a possible
\* result of the call; the guaranteed picks can end up at any index.
PositionalFreedom ==
  (pc = "pick_uppercase" /\ i = 1 /\ ~exclude_similar) =>
    CompliantStrings \subseteq PossibleResults

PositionalFreedomWitness ==
  /\ ~exclude_similar
  /\ use_uppercase /\ use_special /\ min_length = 2
  /\ main_password = <<"!", "!", "A">>

\* C11: a valid call makes exactly `length` draws, one per enabled class and
\* length - k fill draws; no fill draw is discarded (every draw so far is in
\* the list), so the fill loop advances on every iteration.
ExactDraws ==
  /\ pc \in {"pick_uppercase", "pick_lowercase", "pick_digits", "pick_special", "fill"} =>
       (draws = Len(password) /\ Len(password) <= length)
  /\ pc = "fill" => Len(password) >= min_length
  /\ Returned => draws = length

ExactDrawsWitness ==
  /\ Returned
  /\ exclude_similar
  /\ min_length = 2
  /\ length = 4
  /\ draws = 4

\* The requests of one kind sent to the store so far.
Sent(op) == {k \in DOMAIN requests : requests[k].op = op}

\* C12: the store's delete operation is called only after an affirmative
\* confirmation, for the parameter chosen; declining or cancelling the
\* confirmation or the selection leads to no delete call, and only
\* `delete --force` deletes without a prompt.
DeleteOnlyAfterConfirmation ==
  /\ \A k \in Sent("delete") :
       /\ requests[k].Name = tool.name
       /\ \/ tool.confirm = "True"
          \/ tool.command = "delete" /\ tool.force /\ tool.confirm = "unasked"
  /\ (tool.command = "list" /\ Sent("delete") # {}) => Truthy(tool.selected)
  /\ (tool.command = "delete" /\ tool.force) => tool.confirm = "unasked"
  /\ (tool.pc = "done" /\ tool.command = "delete" /\ ~tool.force) =>
       tool.confirm # "unasked"

DeleteOnlyAfterConfirmationWitness ==
  /\ tool.command = "list"
  /\ tool.pc = "done"
  /\ tool.confirm = "True"
  /\ Sent("delete") # {}
  /\ tool.name \notin DOMAIN store

\* C13: the put request of the interactive update flow carries the Type the
\* parameter was listed with.
UpdateKeepsType ==
  \A k \in Sent("put") :
    requests[k].Overwrite => requests[k].Type = ListedType(requests[k].Name)
====
